---- MODULE Spec2Model ----
(***************************************************************************)
(* Model of the task orchestrator's dependency graph engine                *)
(* (src/src/dependency_graph.py, class DependencyGraph) and of the task    *)
(* lifecycle kept in SQLite by TaskManager (src/src/tm_production.py).     *)
(*                                                                         *)
(* Python iterates a set of strings in an order that depends on the hash   *)
(* seed of the run, so every loop over a set is modelled as a choice over  *)
(* all orders: an operator that loops over a set returns the SET of the    *)
(* results the loop can produce.                                           *)
(***************************************************************************)
EXTENDS Integers, Sequences, FiniteSets, TLC

\* ------------------------------------------------------------------ bounds
\* Largest number of edges the graph store is grown to.
MaxEdges == 4
\* Number of task ids uuid4 hands out in one run of the task store.
MaxTasks == 3
\* Longest depends_on list passed to add().
MaxDeps == 2
\* Largest number of rows of the notifications table.
MaxNotifications == 2

\* Node identifiers offered to the graph operations.
Ids == {"A", "B", "C"}
\* Weights offered to add_node (1 is the default of the signature).
WeightInputs == {1, 2}
\* add_node(node_id, weight=1.0)
DefaultWeight == 1

\* ------------------------------------------------------------------- state
VARIABLES
    nodes,          \* DependencyGraph.nodes: set of node ids
    edges,          \* DependencyGraph.edges: node -> set of dependencies
    reverse_edges,  \* DependencyGraph.reverse_edges: node -> set of dependents
    weights,        \* DependencyGraph.weights: dict node -> weight
    ret,            \* the last call on the graph and what it returned
    writers,        \* callers of the graph: writer -> [pc, from, to]
    walker,         \* a running get_all_dependencies / get_all_dependents call
    tasks,          \* table tasks: id -> [status, assignee]
    dependencies,   \* table dependencies: set of <<task_id, depends_on>>
    notifications,  \* table notifications, in insertion (rowid) order
    next_id,        \* the next fresh task id
    fresh,          \* history: tasks created while none of their dependencies was completed
    orphaned,       \* history: tasks that named a dependency whose task was deleted since
    tm_ret,         \* the last TaskManager call and what it returned
    write_lock,     \* the connection that holds SQLite's write lock
    txn             \* complete() calls in progress: caller -> open transaction

graph_vars == <<nodes, edges, reverse_edges, weights, ret, writers, walker>>
tm_vars == <<tasks, dependencies, notifications, next_id, fresh, orphaned, tm_ret,
             write_lock, txn>>
vars == <<nodes, edges, reverse_edges, weights, ret, writers, walker,
          tasks, dependencies, notifications, next_id, fresh, orphaned, tm_ret,
          write_lock, txn>>

\* The graph object as one value.  edges and reverse_edges are defaultdict(set):
\* a key that was never written reads as the empty set, so both are total maps.
G == [nodes |-> nodes, edges |-> edges, reverse_edges |-> reverse_edges,
      weights |-> weights]

EmptyMap == [x \in {} |-> x]

\* DependencyGraph.__init__
EmptyGraph ==
    [nodes |-> {}, edges |-> [n \in Ids |-> {}],
     reverse_edges |-> [n \in Ids |-> {}], weights |-> EmptyMap]

\* ---------------------------------------------------------- graph store
\* add_node: nodes.add(node_id); weights[node_id] = weight
add_node(g, node_id, weight) ==
    [g EXCEPT !.nodes = @ \cup {node_id},
              !.weights = (node_id :> weight) @@ @]

\* add_edge: create the missing endpoints with the default weight, then
\* record the edge in both adjacency maps.
add_edge_resets_weight(g, from_node, to_node) ==
    LET g2 == add_node(add_node(g, from_node, DefaultWeight), to_node, DefaultWeight)
    IN [g2 EXCEPT !.edges[from_node] = @ \cup {to_node},
                  !.reverse_edges[to_node] = @ \cup {from_node}]

add_edge(g, from_node, to_node) ==
    LET g1 == IF from_node \notin g.nodes
              THEN add_node(g, from_node, DefaultWeight) ELSE g
        g2 == IF to_node \notin g1.nodes
              THEN add_node(g1, to_node, DefaultWeight) ELSE g1
    IN [g2 EXCEPT !.edges[from_node] = @ \cup {to_node},
                  !.reverse_edges[to_node] = @ \cup {from_node}]

\* remove_edge: discard from both maps
remove_edge(g, from_node, to_node) ==
    [g EXCEPT !.edges[from_node] = @ \ {to_node},
              !.reverse_edges[to_node] = @ \ {from_node}]

get_dependencies(g, node_id) == g.edges[node_id]
get_dependents(g, node_id) == g.reverse_edges[node_id]

\* ---------------------------------------------------------- detect_cycle
Range(s) == {s[i] : i \in 1..Len(s)}

Reverse(s) == [i \in 1..Len(s) |-> s[Len(s) + 1 - i]]

\* while current in parent and parent[current] != neighbor:
\*     current = parent[current]; cycle_path.append(current)
RECURSIVE trace_back(_, _, _, _)
trace_back(current, neighbor, parent, cycle_path) ==
    IF current \in DOMAIN parent /\ parent[current] # neighbor
    THEN trace_back(parent[current], neighbor, parent,
                    Append(cycle_path, parent[current]))
    ELSE cycle_path

\* cycle_path = [neighbor, node] + the parents traced back, reversed
build_cycle_path(node, neighbor, parent) ==
    Reverse(trace_back(node, neighbor, parent, <<neighbor, node>>))

\* dfs(node): state 0 = unvisited, 1 = visiting, 2 = visited.  The result is
\* the set of outcomes over the orders in which edges[node] can be iterated.
RECURSIVE dfs(_, _, _, _), dfs_neighbors(_, _, _, _, _)
dfs_neighbors(g, node, rest, state, parent) ==
    IF rest = {}
    THEN {[found |-> FALSE, path |-> <<>>,
           state |-> (node :> 2) @@ state, parent |-> parent]}
    ELSE UNION {
           IF state[neighbor] = 1
           THEN {[found |-> TRUE,
                  path |-> build_cycle_path(node, neighbor, parent),
                  state |-> state, parent |-> parent]}
           ELSE IF state[neighbor] = 0
           THEN UNION { IF o.found THEN {o}
                        ELSE dfs_neighbors(g, node, rest \ {neighbor},
                                           o.state, o.parent)
                        : o \in dfs(g, neighbor, state,
                                    (neighbor :> node) @@ parent) }
           ELSE dfs_neighbors(g, node, rest \ {neighbor}, state, parent)
           : neighbor \in rest }

dfs_marks_visited(g, node, state, parent) ==
    dfs_neighbors(g, node, g.edges[node], (node :> 2) @@ state, parent)

dfs(g, node, state, parent) ==
    dfs_neighbors(g, node, g.edges[node], (node :> 1) @@ state, parent)

\* detect_cycle returns None
NoCycle == [found |-> FALSE, path |-> <<>>]

\* for node in self.nodes: if state[node] == 0: if dfs(node): return cycle_path
RECURSIVE detect_cycle_from(_, _, _, _)
detect_cycle_from(g, rest, state, parent) ==
    IF rest = {}
    THEN {NoCycle}
    ELSE UNION {
           IF state[node] = 0
           THEN UNION { IF o.found THEN {[found |-> TRUE, path |-> o.path]}
                        ELSE detect_cycle_from(g, rest \ {node},
                                               o.state, o.parent)
                        : o \in dfs(g, node, state, parent) }
           ELSE detect_cycle_from(g, rest \ {node}, state, parent)
           : node \in rest }

\* The set of values detect_cycle() can return on g.
detect_cycle(g) ==
    detect_cycle_from(g, g.nodes, [n \in g.nodes |-> 0], EmptyMap)

\* ------------------------------------------------------ topological_sort
\* The orders in which Python can iterate a set.
RECURSIVE iteration_orders(_)
iteration_orders(S) ==
    IF S = {} THEN {<<>>}
    ELSE UNION { {<<x>> \o r : r \in iteration_orders(S \ {x})} : x \in S }

\* in_degree = {node: len(self.edges[node]) for node in self.nodes}
in_degree_ignoring_self(g) ==
    [node \in g.nodes |-> Cardinality(g.edges[node] \ {node})]

in_degree_of(g) == [node \in g.nodes |-> Cardinality(g.edges[node])]

\* for dependent in self.reverse_edges[node]:
\*     in_degree[dependent] -= 1
\*     if in_degree[dependent] == 0: queue.append(dependent)
RECURSIVE release_always(_, _, _)
release_always(order, in_degree, queue) ==
    IF order = <<>>
    THEN [in_degree |-> in_degree, queue |-> queue]
    ELSE LET dependent == Head(order)
             deg == (dependent :> (in_degree[dependent] - 1)) @@ in_degree
         IN release_always(Tail(order), deg, Append(queue, dependent))

RECURSIVE release_dependents(_, _, _)
release_dependents(order, in_degree, queue) ==
    IF order = <<>>
    THEN [in_degree |-> in_degree, queue |-> queue]
    ELSE LET dependent == Head(order)
             deg == (dependent :> (in_degree[dependent] - 1)) @@ in_degree
         IN release_dependents(Tail(order), deg,
                               IF deg[dependent] = 0
                               THEN Append(queue, dependent) ELSE queue)

\* while queue: node = queue.popleft(); result.append(node); release
RECURSIVE kahn(_, _, _, _)
kahn(g, queue, in_degree, result) ==
    IF queue = <<>>
    THEN {result}
    ELSE LET node == Head(queue)
         IN UNION { LET r == release_dependents(order, in_degree, Tail(queue))
                    IN kahn(g, r.queue, r.in_degree, Append(result, node))
                    : order \in iteration_orders(g.reverse_edges[node]) }

\* The set of values topological_sort() can return on g; isNone stands for
\* the None returned when fewer nodes than len(self.nodes) were processed.
topological_sort(g) ==
    LET in_degree == in_degree_of(g)
        zero == {node \in g.nodes : in_degree[node] = 0}
        results == UNION { kahn(g, queue, in_degree, <<>>)
                           : queue \in iteration_orders(zero) }
    IN { IF Len(result) = Cardinality(g.nodes)
         THEN [isNone |-> FALSE, order |-> result]
         ELSE [isNone |-> TRUE, order |-> <<>>] : result \in results }

\* ------------------------------------- get_all_dependencies / dependents
\* result = set(); stack = list(adj.get(node_id, set()))
\* while stack: current = stack.pop()
\*     if current not in result: result.add(current); stack.extend(adj.get(current))
walk_direct(adj, stack, result) == {Range(stack)}

RECURSIVE walk(_, _, _)
walk(adj, stack, result) ==
    IF stack = <<>>
    THEN {result}
    ELSE LET current == stack[Len(stack)]
             popped == SubSeq(stack, 1, Len(stack) - 1)
         IN IF current \notin result
            THEN UNION { walk(adj, popped \o more, result \cup {current})
                         : more \in iteration_orders(adj[current]) }
            ELSE walk(adj, popped, result)

\* The sets get_all_dependencies(node_id) can return on g.
get_all_dependencies(g, node_id) ==
    UNION { walk(g.edges, stack, {})
            : stack \in iteration_orders(g.edges[node_id]) }

\* The sets get_all_dependents(node_id) can return on g.
get_all_dependents(g, node_id) ==
    UNION { walk(g.reverse_edges, stack, {})
            : stack \in iteration_orders(g.reverse_edges[node_id]) }

\* ----------------------------------------------------- validate_new_edge
SelfDependency == "Self-dependency detected"
CircularDependency == "Circular dependency detected"
NoMessage == "None"

\* The verdicts of the cycle check on the graph `checked`, with `left` the
\* graph the call leaves behind: if cycle: return False, "Circular ..."
verdicts(checked, left) ==
    { [g |-> left, valid |-> ~(c.found /\ c.path # <<>>),
       msg |-> IF c.found /\ c.path # <<>>
               THEN CircularDependency ELSE NoMessage,
       path |-> c.path] : c \in detect_cycle(checked) }

validate_new_edge_no_self_check(g, from_node, to_node) ==
    LET g1 == add_edge(g, from_node, to_node)
    IN verdicts(g1, remove_edge(g1, from_node, to_node))

validate_new_edge_check_after_remove(g, from_node, to_node) ==
    IF from_node = to_node
    THEN {[g |-> g, valid |-> FALSE, msg |-> SelfDependency, path |-> <<>>]}
    ELSE LET g2 == remove_edge(add_edge(g, from_node, to_node),
                               from_node, to_node)
         IN verdicts(g2, g2)

\* The outcomes of validate_new_edge(from_node, to_node) on g: the graph it
\* leaves behind, the verdict, the kind of message and the cycle it names.
validate_new_edge(g, from_node, to_node) ==
    IF from_node = to_node
    THEN {[g |-> g, valid |-> FALSE, msg |-> SelfDependency, path |-> <<>>]}
    ELSE LET g1 == add_edge(g, from_node, to_node)
         IN verdicts(g1, remove_edge(g1, from_node, to_node))

\* ------------------------------------------------------------ graph steps
EdgeSet(g) == {e \in Ids \X Ids : e[2] \in g.edges[e[1]]}
EdgeCount(g) == Cardinality(EdgeSet(g))

\* What the last call returned: valid and msg are the pair returned by
\* validate_new_edge, isNone says that a query returned None, path is the
\* list a query returned or the cycle named in the message, total is the
\* weight returned with a critical path, nodeset is the set a query returned,
\* scores is the dict returned by identify_blocking_tasks.
Ret(op, from_node, to_node, valid, msg, isNone, path) ==
    [op |-> op, from |-> from_node, to |-> to_node, valid |-> valid,
     msg |-> msg, isNone |-> isNone, path |-> path, total |-> 0,
     nodeset |-> {}, scores |-> EmptyMap]

\* add_node, add_edge and remove_edge return None
NoReturn == Ret("None", "", "", TRUE, NoMessage, TRUE, <<>>)

SetGraph(g) ==
    /\ nodes' = g.nodes
    /\ edges' = g.edges
    /\ reverse_edges' = g.reverse_edges
    /\ weights' = g.weights

AddNode(node_id, weight) ==
    /\ SetGraph(add_node(G, node_id, weight))
    /\ ret' = NoReturn
    /\ UNCHANGED <<writers, walker>>
    /\ UNCHANGED tm_vars

AddEdge(from_node, to_node) ==
    /\ to_node \in edges[from_node] \/ EdgeCount(G) < MaxEdges
    /\ SetGraph(add_edge(G, from_node, to_node))
    /\ ret' = NoReturn
    /\ UNCHANGED <<writers, walker>>
    /\ UNCHANGED tm_vars

\* The caller's rule: add_edge only for the edge that validate_new_edge has
\* just accepted on the current graph.
AddEdgeValidated(from_node, to_node) ==
    /\ ret.op = "validate_new_edge"
    /\ ret.from = from_node /\ ret.to = to_node
    /\ ret.valid
    /\ AddEdge(from_node, to_node)

RemoveEdge(from_node, to_node) ==
    /\ SetGraph(remove_edge(G, from_node, to_node))
    /\ ret' = NoReturn
    /\ UNCHANGED <<writers, walker>>
    /\ UNCHANGED tm_vars

ValidateNewEdge(from_node, to_node) ==
    /\ \E o \in validate_new_edge(G, from_node, to_node) :
          /\ SetGraph(o.g)
          /\ ret' = Ret("validate_new_edge", from_node, to_node, o.valid,
                        o.msg, FALSE, o.path)
    /\ UNCHANGED <<writers, walker>>
    /\ UNCHANGED tm_vars

DetectCycle ==
    /\ \E c \in detect_cycle(G) :
          ret' = Ret("detect_cycle", "", "", TRUE, NoMessage, ~c.found, c.path)
    /\ UNCHANGED <<nodes, edges, reverse_edges, weights, writers, walker>>
    /\ UNCHANGED tm_vars

\* Kahn's algorithm consuming the store's own maps instead of a copy.
TopologicalSortDestructive ==
    /\ \E r \in topological_sort(G) :
          ret' = Ret("topological_sort", "", "", TRUE, NoMessage, r.isNone,
                     r.order)
    /\ edges' = [n \in Ids |-> {}]
    /\ reverse_edges' = [n \in Ids |-> {}]
    /\ UNCHANGED <<nodes, weights, writers, walker>>
    /\ UNCHANGED tm_vars

TopologicalSort ==
    /\ \E r \in topological_sort(G) :
          ret' = Ret("topological_sort", "", "", TRUE, NoMessage, r.isNone,
                     r.order)
    /\ UNCHANGED <<nodes, edges, reverse_edges, weights, writers, walker>>
    /\ UNCHANGED tm_vars

\* ------------------------------------------------------------ task store
\* Task ids: uuid4().hex[:8] is modelled as a counter, an id is never reused.
TaskIds == 1..MaxTasks
Statuses == {"pending", "in_progress", "completed", "blocked"}
\* SQL NULL / Python None
NULL == "NULL"
Agents == {"agent1"}
\* depends_on lists offered to add(): ids of existing, deleted or unknown tasks.
DependsOnInputs == UNION {[1..n -> TaskIds] : n \in 0..MaxDeps}
\* status arguments offered to update(): None, the four statuses, an invalid one.
StatusInputs == {NULL, "archived"} \cup Statuses
AssigneeInputs == {NULL} \cup Agents

\* rows holds the ids of the notifications a watch() call returned.
TmRet(op, task_id, ok) ==
    [op |-> op, task_id |-> task_id, ok |-> ok, rows |-> <<>>]

\* The dependency rows of a task.
DepsOf(deps, task_id) == {d[2] : d \in {e \in deps : e[1] = task_id}}

\* add(): the rows after a successful INSERT of the task and its dependencies.
\* status = "blocked" if depends_on else "pending"
add_status(depends_on) == IF depends_on # <<>> THEN "blocked" ELSE "pending"

\* SELECT id FROM tasks WHERE id IN (...): the existence check runs before the
\* task row is inserted, so it sees the rows of the tasks created earlier.
tasks_seen_after_insert(tbl, task_id) == DOMAIN tbl \cup {task_id}

tasks_seen_unchecked(tbl, task_id) == TaskIds

tasks_seen_by_check(tbl, task_id) == DOMAIN tbl

\* add(title, depends_on=...): one transaction; a missing dependency raises
\* before the INSERT, a repeated id violates the primary key of dependencies
\* and the with-block rolls the task row back.
Add(depends_on) ==
    LET task_id == next_id
        missing_deps == Range(depends_on) \ tasks_seen_by_check(tasks, task_id)
        repeated == Cardinality(Range(depends_on)) # Len(depends_on)
    IN /\ next_id <= MaxTasks
       /\ IF (depends_on # <<>> /\ missing_deps # {}) \/ repeated
          THEN /\ tm_ret' = TmRet("add", 0, FALSE)
               /\ UNCHANGED <<tasks, dependencies, notifications, next_id,
                               fresh, orphaned>>
          ELSE /\ tasks' = (task_id :> [status |-> add_status(depends_on),
                                        assignee |-> NULL]) @@ tasks
               /\ dependencies' = dependencies \cup
                                  {<<task_id, dep_id>> : dep_id \in Range(depends_on)}
               /\ next_id' = next_id + 1
               /\ fresh' = IF depends_on # <<>> /\
                              \A d \in Range(depends_on) \cap DOMAIN tasks :
                                  tasks[d].status # "completed"
                           THEN fresh \cup {task_id} ELSE fresh
               /\ tm_ret' = TmRet("add", task_id, TRUE)
               /\ UNCHANGED <<notifications, orphaned>>
       /\ UNCHANGED <<write_lock, txn>>
       /\ UNCHANGED graph_vars

\* update(task_id, status, assignee): UPDATE tasks SET ... WHERE id = ?
update_accepts_status(status) == status = NULL \/ status \in Statuses

Update(task_id, status, assignee) ==
    /\ IF update_accepts_status(status) /\ task_id \in DOMAIN tasks
       THEN /\ tasks' = [tasks EXCEPT
                           ![task_id].status = IF status # NULL THEN status ELSE @,
                           ![task_id].assignee = IF assignee # NULL THEN assignee ELSE @]
            /\ tm_ret' = TmRet("update", task_id, TRUE)
       ELSE /\ tm_ret' = TmRet("update", task_id, FALSE)
            /\ UNCHANGED tasks
    /\ UNCHANGED <<dependencies, notifications, next_id, fresh, orphaned>>
    /\ UNCHANGED <<write_lock, txn>>
    /\ UNCHANGED graph_vars

\* delete(task_id): DELETE FROM dependencies WHERE task_id = ? OR depends_on = ?;
\* DELETE FROM tasks WHERE id = ?
Delete(task_id) ==
    /\ IF task_id \in DOMAIN tasks
       THEN /\ dependencies' = {d \in dependencies :
                                  d[1] # task_id /\ d[2] # task_id}
            /\ tasks' = [t \in DOMAIN tasks \ {task_id} |-> tasks[t]]
            /\ orphaned' = (orphaned \cup {d[1] : d \in {e \in dependencies :
                                                            e[2] = task_id}})
                            \ {task_id}
            /\ tm_ret' = TmRet("delete", task_id, TRUE)
       ELSE /\ tm_ret' = TmRet("delete", task_id, FALSE)
            /\ UNCHANGED <<tasks, dependencies, orphaned>>
    /\ UNCHANGED <<notifications, next_id, fresh>>
    /\ UNCHANGED <<write_lock, txn>>
    /\ UNCHANGED graph_vars

\* UPDATE tasks SET status = 'completed' WHERE id = ?
mark_completed_everywhere(tbl, task_id) ==
    [t \in DOMAIN tbl |-> [tbl[t] EXCEPT !.status = "completed"]]

mark_completed(tbl, task_id) ==
    IF task_id \in DOMAIN tbl
    THEN [tbl EXCEPT ![task_id].status = "completed"] ELSE tbl

\* NOT EXISTS (SELECT 1 FROM dependencies d2 JOIN tasks t2 ON d2.depends_on = t2.id
\*             WHERE d2.task_id = d.task_id AND d2.depends_on != ?
\*             AND t2.status != 'completed')
others_completed_unchecked(tbl, deps, candidate, task_id) == TRUE

others_completed(tbl, deps, candidate, task_id) ==
    ~\E d2 \in deps :
        /\ d2[1] = candidate
        /\ d2[2] # task_id
        /\ d2[2] \in DOMAIN tbl
        /\ tbl[d2[2]].status # "completed"

\* SELECT task_id, assignee FROM tasks t JOIN dependencies d ON t.id = d.task_id
\* WHERE t.status = 'blocked' AND d.depends_on = ? AND NOT EXISTS (...)
unblocked_tasks(tbl, deps, task_id) ==
    {d[1] : d \in {e \in deps :
                     /\ e[2] = task_id
                     /\ e[1] \in DOMAIN tbl
                     /\ tbl[e[1]].status = "blocked"
                     /\ others_completed(tbl, deps, e[1], task_id)}}

\* _create_notification(conn, unblocked_id, 'unblocked', message, assignee)
create_notification(tbl, unblocked_id) ==
    [agent_id |-> tbl[unblocked_id].assignee, task_id |-> unblocked_id,
     type |-> "unblocked", read |-> FALSE]

\* complete(task_id): one transaction that marks the task completed, selects
\* the blocked dependents whose other dependencies are all completed, sets
\* them to pending and inserts one notification per selected row.
Complete(task_id) ==
    LET tbl1 == mark_completed(tasks, task_id)
        unblocked == unblocked_tasks(tbl1, dependencies, task_id)
    IN /\ Len(notifications) + Cardinality(unblocked) <= MaxNotifications
       /\ tasks' = [t \in DOMAIN tbl1 |->
                      IF tbl1[t].status = "blocked" /\ t \in unblocked
                      THEN [tbl1[t] EXCEPT !.status = "pending"] ELSE tbl1[t]]
       /\ \E rows \in iteration_orders(unblocked) :
             notifications' = notifications \o
                 [i \in 1..Len(rows) |-> create_notification(tbl1, rows[i])]
       /\ tm_ret' = TmRet("complete", task_id, TRUE)
       /\ UNCHANGED <<dependencies, next_id, fresh, orphaned>>
       /\ UNCHANGED <<write_lock, txn>>
       /\ UNCHANGED graph_vars

\* limit arguments offered to watch()
LimitInputs == {1, 2}

\* WHERE (agent_id = ? OR agent_id IS NULL) AND read = 0: the ids of the
\* matching rows; the id of a row is its position in insertion order.
unread_for(rows, agent_id) ==
    {i \in 1..Len(rows) : rows[i].agent_id \in {agent_id, NULL} /\ ~rows[i].read}

\* ORDER BY created_at DESC LIMIT ?: created_at is the insertion time, so the
\* newest rows come first.
RECURSIVE newest_first(_, _)
newest_first(ids, limit) ==
    IF ids = {} \/ limit = 0 THEN <<>>
    ELSE LET newest == CHOOSE i \in ids : \A j \in ids : j <= i
         IN <<newest>> \o newest_first(ids \ {newest}, limit - 1)

\* watch(limit): SELECT the newest unread notifications of the agent up to
\* limit, then UPDATE notifications SET read = 1 on every unread notification
\* of the agent, commit, and return the selected rows.
Watch(agent_id, limit) ==
    LET matching == unread_for(notifications, agent_id)
    IN /\ tm_ret' = [TmRet("watch", 0, TRUE) EXCEPT
                        !.rows = newest_first(matching, limit)]
       /\ notifications' = [i \in 1..Len(notifications) |->
                              IF i \in matching
                              THEN [notifications[i] EXCEPT !.read = TRUE]
                              ELSE notifications[i]]
       /\ UNCHANGED <<tasks, dependencies, next_id, fresh, orphaned>>
       /\ UNCHANGED <<write_lock, txn>>
       /\ UNCHANGED graph_vars

\* ------------------------------------------- concurrent complete() calls
\* Two TaskManager processes working on one database file.
Callers == {"agent1", "agent2"}
NoCaller == "none"

\* A complete() call: where it stands, its argument, the rows its open
\* transaction has written, the rows its SELECT fetched and the notifications
\* it has inserted.  overlap is a history flag: another call was in progress
\* when this one started.
NoTxn ==
    [pc |-> "idle", task_id |-> 0, writes |-> EmptyMap, unblocked |-> {},
     rows |-> <<>>, overlap |-> FALSE]

\* What a connection reads in table tasks: the committed rows under its own
\* uncommitted writes.
view(tbl, writes) == writes @@ tbl

\* The rows of a transaction after a statement took its view from before to after.
written(before, after, writes) ==
    [t \in DOMAIN writes \cup {u \in DOMAIN after : after[u] # before[u]}
       |-> after[t]]

\* SQLite admits one write transaction at a time: the first UPDATE of a
\* connection waits until no other connection holds the write lock.
can_write_unlocked(lock, a) == TRUE

can_write(lock, a) == lock \in {NoCaller, a}

\* with sqlite3.connect(...) as conn: PRAGMA table_info(tasks); no
\* transaction is open yet.
CompleteCall(a, task_id) ==
    /\ txn[a].pc = "idle"
    /\ txn' = [txn EXCEPT ![a] =
                 [NoTxn EXCEPT !.pc = "called", !.task_id = task_id,
                               !.overlap = \E b \in Callers \ {a} :
                                              txn[b].pc # "idle"]]
    /\ UNCHANGED <<tasks, dependencies, notifications, next_id, fresh, orphaned,
                   tm_ret, write_lock>>
    /\ UNCHANGED graph_vars

\* UPDATE tasks SET status = 'completed' WHERE id = ?: opens the transaction
\* and takes the write lock, which is held until the commit.
CompleteMark(a) ==
    LET before == view(tasks, txn[a].writes)
        after == mark_completed(before, txn[a].task_id)
    IN /\ txn[a].pc = "called"
       /\ can_write(write_lock, a)
       /\ write_lock' = a
       /\ txn' = [txn EXCEPT ![a].pc = "marked",
                             ![a].writes = written(before, after, @)]
       /\ UNCHANGED <<tasks, dependencies, notifications, next_id, fresh,
                      orphaned, tm_ret>>
       /\ UNCHANGED graph_vars

\* SELECT task_id, assignee ... ; unblocked_tasks = cursor.fetchall()
CompleteSelect(a) ==
    /\ txn[a].pc = "marked"
    /\ txn' = [txn EXCEPT ![a].pc = "selected",
                          ![a].unblocked =
                              unblocked_tasks(view(tasks, txn[a].writes),
                                              dependencies, txn[a].task_id)]
    /\ UNCHANGED <<tasks, dependencies, notifications, next_id, fresh, orphaned,
                   tm_ret, write_lock>>
    /\ UNCHANGED graph_vars

\* UPDATE tasks SET status = 'pending' WHERE status = 'blocked' AND id IN (...)
CompleteUnblock(a) ==
    LET before == view(tasks, txn[a].writes)
        ids == unblocked_tasks(before, dependencies, txn[a].task_id)
        after == [t \in DOMAIN before |->
                    IF before[t].status = "blocked" /\ t \in ids
                    THEN [before[t] EXCEPT !.status = "pending"] ELSE before[t]]
    IN /\ txn[a].pc = "selected"
       /\ txn' = [txn EXCEPT ![a].pc = "unblocked",
                             ![a].writes = written(before, after, @)]
       /\ UNCHANGED <<tasks, dependencies, notifications, next_id, fresh,
                      orphaned, tm_ret, write_lock>>
       /\ UNCHANGED graph_vars

\* for task_row in unblocked_tasks: self._create_notification(conn, ...)
CompleteNotify(a) ==
    /\ txn[a].pc = "unblocked"
    /\ Len(notifications) + Cardinality(txn[a].unblocked) <= MaxNotifications
    /\ \E rows \in iteration_orders(txn[a].unblocked) :
          txn' = [txn EXCEPT ![a].pc = "notified",
                             ![a].rows =
                                 [i \in 1..Len(rows) |->
                                    create_notification(
                                        view(tasks, txn[a].writes), rows[i])]]
    /\ UNCHANGED <<tasks, dependencies, notifications, next_id, fresh, orphaned,
                   tm_ret, write_lock>>
    /\ UNCHANGED graph_vars

\* conn.commit(): the writes become the committed rows, the lock is released;
\* return True
CompleteCommit(a) ==
    /\ txn[a].pc = "notified"
    /\ tasks' = view(tasks, txn[a].writes)
    /\ notifications' = notifications \o txn[a].rows
    /\ write_lock' = NoCaller
    /\ tm_ret' = TmRet("complete", txn[a].task_id, TRUE)
    /\ txn' = [txn EXCEPT ![a] = NoTxn]
    /\ UNCHANGED <<dependencies, next_id, fresh, orphaned>>
    /\ UNCHANGED graph_vars

\* ---------------------------------------------------- find_critical_path
\* Weights offered to add_node where the critical path is computed: zero for
\* a milestone, the default, and a larger one.
CriticalWeightInputs == {0, 1, 2}

\* self.weights.get(node, 1.0)
weight_of(g, node) ==
    IF node \in DOMAIN g.weights THEN g.weights[node] ELSE DefaultWeight

\* predecessor[node] = None, end_node = None
NoNode == "None"

\* for dependent in self.reverse_edges[node]:
\*     new_distance = distance[node] + node_weight
\*     if new_distance > distance[dependent]: update distance and predecessor
\* Each dependent is updated on its own, so the order of the loop is immaterial.
relax_unit_step(g, node, dp) ==
    LET new_distance == dp.distance[node] + 1
    IN [distance |-> [d \in g.nodes |->
                        IF d \in g.reverse_edges[node] /\ new_distance > dp.distance[d]
                        THEN new_distance ELSE dp.distance[d]],
        predecessor |-> [d \in g.nodes |->
                        IF d \in g.reverse_edges[node] /\ new_distance > dp.distance[d]
                        THEN node ELSE dp.predecessor[d]]]

relax(g, node, dp) ==
    LET new_distance == dp.distance[node] + weight_of(g, node)
    IN [distance |-> [d \in g.nodes |->
                        IF d \in g.reverse_edges[node] /\ new_distance > dp.distance[d]
                        THEN new_distance ELSE dp.distance[d]],
        predecessor |-> [d \in g.nodes |->
                        IF d \in g.reverse_edges[node] /\ new_distance > dp.distance[d]
                        THEN node ELSE dp.predecessor[d]]]

\* for node in topo_order: relax the dependents of node
RECURSIVE longest_distances(_, _, _)
longest_distances(g, topo_order, dp) ==
    IF topo_order = <<>> THEN dp
    ELSE longest_distances(g, Tail(topo_order), relax(g, Head(topo_order), dp))

\* max_distance = 0.0; end_node = None
\* for node in self.nodes:
\*     if distance[node] + weight > max_distance: max_distance, end_node = ..., node
RECURSIVE find_end_node(_, _, _, _, _)
find_end_node(g, node_order, distance, max_distance, end_node) ==
    IF node_order = <<>>
    THEN [max_distance |-> max_distance, end_node |-> end_node]
    ELSE LET node == Head(node_order)
             node_distance == distance[node] + weight_of(g, node)
         IN IF node_distance > max_distance
            THEN find_end_node(g, Tail(node_order), distance, node_distance, node)
            ELSE find_end_node(g, Tail(node_order), distance, max_distance, end_node)

\* while current is not None: path.append(current); current = predecessor[current]
RECURSIVE reconstruct_path_prepending(_, _, _)
reconstruct_path_prepending(predecessor, current, path) ==
    IF current = NoNode THEN path
    ELSE reconstruct_path_prepending(predecessor, predecessor[current],
                                     <<current>> \o path)

RECURSIVE reconstruct_path(_, _, _)
reconstruct_path(predecessor, current, path) ==
    IF current = NoNode THEN path
    ELSE reconstruct_path(predecessor, predecessor[current], Append(path, current))

\* return [], 0.0
EmptyPath == [path |-> <<>>, total |-> 0]

\* Lines 258-296: the path computed from one topological order and one
\* iteration order of self.nodes.
critical_path_from(g, topo_order, node_order) ==
    LET dp == longest_distances(g, topo_order,
                  [distance |-> [n \in g.nodes |-> 0],
                   predecessor |-> [n \in g.nodes |-> NoNode]])
        e == find_end_node(g, node_order, dp.distance, 0, NoNode)
    IN IF e.end_node = NoNode THEN EmptyPath
       ELSE [path |-> Reverse(reconstruct_path(dp.predecessor, e.end_node, <<>>)),
             total |-> e.max_distance]

\* if self.detect_cycle(): a non-empty cycle list is truthy
cycle_reported(c) == c.found /\ c.path # <<>>

\* if not topo_order: None and the empty list are both falsy
no_order(t) == t.isNone \/ t.order = <<>>

find_critical_path_unguarded(g) ==
    UNION { {critical_path_from(g, t.order, node_order)
             : node_order \in iteration_orders(g.nodes)}
            : t \in topological_sort(g) }

\* The set of pairs (path, total) find_critical_path() can return on g.
find_critical_path(g) ==
    UNION { IF cycle_reported(c) THEN {EmptyPath}
            ELSE UNION { IF no_order(t) THEN {EmptyPath}
                         ELSE {critical_path_from(g, t.order, node_order)
                               : node_order \in iteration_orders(g.nodes)}
                         : t \in topological_sort(g) }
            : c \in detect_cycle(g) }

FindCriticalPath ==
    /\ \E r \in find_critical_path(G) :
          ret' = [Ret("find_critical_path", "", "", TRUE, NoMessage, FALSE, r.path)
                  EXCEPT !.total = r.total]
    /\ UNCHANGED <<nodes, edges, reverse_edges, weights, writers, walker>>
    /\ UNCHANGED tm_vars

\* ------------------------------------------------------ transitive queries
GetAllDependencies(node_id) ==
    /\ \E result \in get_all_dependencies(G, node_id) :
          ret' = [Ret("get_all_dependencies", node_id, "", TRUE, NoMessage, FALSE, <<>>)
                  EXCEPT !.nodeset = result]
    /\ UNCHANGED <<nodes, edges, reverse_edges, weights, writers, walker>>
    /\ UNCHANGED tm_vars

GetAllDependents(node_id) ==
    /\ \E result \in get_all_dependents(G, node_id) :
          ret' = [Ret("get_all_dependents", node_id, "", TRUE, NoMessage, FALSE, <<>>)
                  EXCEPT !.nodeset = result]
    /\ UNCHANGED <<nodes, edges, reverse_edges, weights, writers, walker>>
    /\ UNCHANGED tm_vars

\* ------------------------------------------------------ structural queries
\* find_self_loops: the list follows the iteration order of self.nodes.
find_self_loops(g) ==
    iteration_orders({node \in g.nodes : node \in g.edges[node]})

\* {node for node in self.nodes if len(self.edges[node]) == 0}
find_roots(g) == {node \in g.nodes : Cardinality(g.edges[node]) = 0}

\* {node for node in self.nodes if len(self.reverse_edges[node]) == 0}
find_leaves(g) == {node \in g.nodes : Cardinality(g.reverse_edges[node]) = 0}

\* blocking_score = num_dependents * 2.0 + downstream_impact * 1.5
\*                  + task_weight * 1.0 + on_critical_path * 3.0
\* with on_critical_path = 2.0 on the critical path and 1.0 off it.  The model
\* keeps the score in halves (twice the float), so that 1.5 is the integer 3.
blocking_score_without_cascade(g, node, all_dependents, critical_path) ==
    Cardinality(g.reverse_edges[node]) * 4
    + weight_of(g, node) * 2
    + (IF node \in Range(critical_path) THEN 2 ELSE 1) * 6

blocking_score(g, node, all_dependents, critical_path) ==
    Cardinality(g.reverse_edges[node]) * 4
    + Cardinality(all_dependents) * 3
    + weight_of(g, node) * 2
    + (IF node \in Range(critical_path) THEN 2 ELSE 1) * 6

\* for node in self.nodes: blocking_scores[node] = blocking_score
\* The entries are keyed by node, so the order of the loop is immaterial.
RECURSIVE score_nodes(_, _, _, _)
score_nodes(g, todo, critical_path, blocking_scores) ==
    IF todo = {} THEN {blocking_scores}
    ELSE LET node == CHOOSE n \in todo : TRUE
         IN UNION { score_nodes(g, todo \ {node}, critical_path,
                                (node :> blocking_score(g, node, all_dependents,
                                                        critical_path))
                                @@ blocking_scores)
                    : all_dependents \in get_all_dependents(g, node) }

\* The dicts identify_blocking_tasks() can return on g.  The loop calls
\* find_critical_path for each node; the graph does not change in between, so
\* every call of one run iterates the sets alike and returns the same path.
identify_blocking_tasks(g) ==
    UNION { score_nodes(g, g.nodes, cp.path, EmptyMap)
            : cp \in find_critical_path(g) }

FindSelfLoops ==
    /\ \E result \in find_self_loops(G) :
          ret' = Ret("find_self_loops", "", "", TRUE, NoMessage, FALSE, result)
    /\ UNCHANGED <<nodes, edges, reverse_edges, weights, writers, walker>>
    /\ UNCHANGED tm_vars

FindRoots ==
    /\ ret' = [Ret("find_roots", "", "", TRUE, NoMessage, FALSE, <<>>)
               EXCEPT !.nodeset = find_roots(G)]
    /\ UNCHANGED <<nodes, edges, reverse_edges, weights, writers, walker>>
    /\ UNCHANGED tm_vars

FindLeaves ==
    /\ ret' = [Ret("find_leaves", "", "", TRUE, NoMessage, FALSE, <<>>)
               EXCEPT !.nodeset = find_leaves(G)]
    /\ UNCHANGED <<nodes, edges, reverse_edges, weights, writers, walker>>
    /\ UNCHANGED tm_vars

IdentifyBlockingTasks ==
    /\ \E result \in identify_blocking_tasks(G) :
          ret' = [Ret("identify_blocking_tasks", "", "", TRUE, NoMessage, FALSE, <<>>)
                  EXCEPT !.scores = result]
    /\ UNCHANGED <<nodes, edges, reverse_edges, weights, writers, walker>>
    /\ UNCHANGED tm_vars

\* ------------------------------------------- the transitive walk, step by step
\* One call of get_all_dependencies (adj = "edges") or get_all_dependents
\* (adj = "reverse_edges") taken one iteration of its while loop at a time.
\* expanded is a history of the nodes whose neighbours were pushed.
NoWalk ==
    [pc |-> "idle", adj |-> "", node |-> "", stack |-> <<>>, result |-> {},
     expanded |-> <<>>]

adjacency(g, adj) == IF adj = "edges" THEN g.edges ELSE g.reverse_edges

\* result = set(); stack = list(self.edges.get(node_id, set()))
WalkStart(adj, node_id) ==
    /\ walker.pc = "idle"
    /\ \E stack \in iteration_orders(adjacency(G, adj)[node_id]) :
          walker' = [pc |-> "running", adj |-> adj, node |-> node_id,
                     stack |-> stack, result |-> {}, expanded |-> <<>>]
    /\ ret' = NoReturn
    /\ UNCHANGED <<nodes, edges, reverse_edges, weights, writers>>
    /\ UNCHANGED tm_vars

\* current = stack.pop()
\* if current not in result: result.add(current); stack.extend(neighbours)
walk_step_keeps_visited(adj, w) ==
    LET current == w.stack[Len(w.stack)]
        popped == SubSeq(w.stack, 1, Len(w.stack) - 1)
    IN IF current \notin w.result
       THEN { [w EXCEPT !.stack = popped \o more,
                        !.result = @ \cup {current},
                        !.expanded = Append(@, current)]
              : more \in iteration_orders(adj[current]) }
       ELSE {w}

walk_step(adj, w) ==
    LET current == w.stack[Len(w.stack)]
        popped == SubSeq(w.stack, 1, Len(w.stack) - 1)
    IN IF current \notin w.result
       THEN { [w EXCEPT !.stack = popped \o more,
                        !.result = @ \cup {current},
                        !.expanded = Append(@, current)]
              : more \in iteration_orders(adj[current]) }
       ELSE {[w EXCEPT !.stack = popped]}

\* while stack: one iteration
WalkStep ==
    /\ walker.pc = "running"
    /\ walker.stack # <<>>
    /\ walker' \in walk_step(adjacency(G, walker.adj), walker)
    /\ UNCHANGED <<nodes, edges, reverse_edges, weights, ret, writers>>
    /\ UNCHANGED tm_vars

\* return result
WalkReturn ==
    /\ walker.pc = "running"
    /\ walker.stack = <<>>
    /\ walker' = NoWalk
    /\ ret' = [Ret(IF walker.adj = "edges" THEN "get_all_dependencies"
                   ELSE "get_all_dependents",
                   walker.node, "", TRUE, NoMessage, FALSE, <<>>)
               EXCEPT !.nodeset = walker.result]
    /\ UNCHANGED <<nodes, edges, reverse_edges, weights, writers>>
    /\ UNCHANGED tm_vars

\* --------------------------------------------------------- concurrent writers
\* Two callers of one DependencyGraph.  Each validates its own edge and, when
\* the verdict is valid, adds it; the class holds no lock and offers no
\* operation that does both, so calls of the two writers interleave freely.
Writers == {"w1", "w2"}
Idle == [pc |-> "idle", from |-> "", to |-> ""]

\* is_valid, error = graph.validate_new_edge(from_node, to_node)
WriterValidate(w, from_node, to_node) ==
    /\ writers[w].pc = "idle"
    /\ \E o \in validate_new_edge(G, from_node, to_node) :
          /\ SetGraph(o.g)
          /\ writers' = [writers EXCEPT ![w] =
                           IF o.valid
                           THEN [pc |-> "accepted", from |-> from_node, to |-> to_node]
                           ELSE Idle]
    /\ ret' = NoReturn
    /\ UNCHANGED walker
    /\ UNCHANGED tm_vars

\* if is_valid: graph.add_edge(from_node, to_node)
WriterAddEdge(w) ==
    /\ writers[w].pc = "accepted"
    /\ writers[w].to \in edges[writers[w].from] \/ EdgeCount(G) < MaxEdges
    /\ SetGraph(add_edge(G, writers[w].from, writers[w].to))
    /\ writers' = [writers EXCEPT ![w] = Idle]
    /\ ret' = NoReturn
    /\ UNCHANGED walker
    /\ UNCHANGED tm_vars

\* -------------------------------------------------------------- the system
Init ==
    /\ nodes = EmptyGraph.nodes
    /\ edges = EmptyGraph.edges
    /\ reverse_edges = EmptyGraph.reverse_edges
    /\ weights = EmptyGraph.weights
    /\ ret = NoReturn
    /\ writers = [w \in Writers |-> Idle]
    /\ walker = NoWalk
    /\ tasks = EmptyMap
    /\ dependencies = {}
    /\ notifications = <<>>
    /\ next_id = 1
    /\ fresh = {}
    /\ orphaned = {}
    /\ tm_ret = TmRet("init", 0, TRUE)
    /\ write_lock = NoCaller
    /\ txn = [a \in Callers |-> NoTxn]

\* The graph store under every call of its interface.
Next ==
    \/ \E n \in Ids, w \in WeightInputs : AddNode(n, w)
    \/ \E f, t \in Ids : AddEdge(f, t)
    \/ \E f, t \in Ids : RemoveEdge(f, t)
    \/ \E f, t \in Ids : ValidateNewEdge(f, t)
    \/ DetectCycle
    \/ TopologicalSort

Spec == Init /\ [][Next]_vars

\* The graph store under its mutators and the edge validation alone.
NextStore ==
    \/ \E n \in Ids, w \in WeightInputs : AddNode(n, w)
    \/ \E f, t \in Ids : AddEdge(f, t)
    \/ \E f, t \in Ids : RemoveEdge(f, t)
    \/ \E f, t \in Ids : ValidateNewEdge(f, t)

SpecStore == Init /\ [][NextStore]_vars

\* The graph store under a caller that commits only validated edges.
NextValidated ==
    \/ \E n \in Ids, w \in WeightInputs : AddNode(n, w)
    \/ \E f, t \in Ids : ValidateNewEdge(f, t)
    \/ \E f, t \in Ids : AddEdgeValidated(f, t)
    \/ \E f, t \in Ids : RemoveEdge(f, t)
    \/ DetectCycle

SpecValidated == Init /\ [][NextValidated]_vars

\* The graph store with weighted nodes and the critical-path query.
NextCritical ==
    \/ \E n \in Ids, w \in CriticalWeightInputs : AddNode(n, w)
    \/ \E f, t \in Ids : AddEdge(f, t)
    \/ FindCriticalPath

SpecCritical == Init /\ [][NextCritical]_vars

\* The graph store under the transitive queries.
NextReach ==
    \/ \E n \in Ids : AddNode(n, DefaultWeight)
    \/ \E f, t \in Ids : AddEdge(f, t)
    \/ \E f, t \in Ids : RemoveEdge(f, t)
    \/ \E n \in Ids : GetAllDependencies(n)
    \/ \E n \in Ids : GetAllDependents(n)

SpecReach == Init /\ [][NextReach]_vars

\* The graph store under every read-only query.
NextQueries ==
    \/ \E n \in Ids, w \in WeightInputs : AddNode(n, w)
    \/ \E f, t \in Ids : AddEdge(f, t)
    \/ TopologicalSort
    \/ DetectCycle
    \/ FindSelfLoops
    \/ FindRoots
    \/ FindLeaves
    \/ \E n \in Ids : GetAllDependencies(n)
    \/ \E n \in Ids : GetAllDependents(n)
    \/ FindCriticalPath
    \/ IdentifyBlockingTasks

SpecQueries == Init /\ [][NextQueries]_vars

\* The weighted graph store under identify_blocking_tasks.
NextBlocking ==
    \/ \E n \in Ids, w \in WeightInputs : AddNode(n, w)
    \/ \E f, t \in Ids : AddEdge(f, t)
    \/ IdentifyBlockingTasks

SpecBlocking == Init /\ [][NextBlocking]_vars

\* The graph store with the transitive queries run one loop iteration at a
\* time; the graph is built between calls, and a call that has started runs on:
\* the loop has no blocking operation.
NextWalk ==
    \/ \E f, t \in Ids : walker.pc = "idle" /\ AddEdge(f, t)
    \/ \E adj \in {"edges", "reverse_edges"}, n \in Ids : WalkStart(adj, n)
    \/ WalkStep
    \/ WalkReturn

SpecWalk == Init /\ [][NextWalk]_vars /\ WF_vars(WalkStep) /\ WF_vars(WalkReturn)

\* Two writers sharing one graph store.
NextWriters ==
    \/ \E w \in Writers, f, t \in Ids : WriterValidate(w, f, t)
    \/ \E w \in Writers : WriterAddEdge(w)

SpecWriters == Init /\ [][NextWriters]_vars

\* The task store under add, update, complete and delete.
NextTM ==
    \/ \E depends_on \in DependsOnInputs : Add(depends_on)
    \/ \E t \in TaskIds, st \in StatusInputs : Update(t, st, NULL)
    \/ \E t \in TaskIds : Complete(t)
    \/ \E t \in TaskIds : Delete(t)

SpecTM == Init /\ [][NextTM]_vars

\* The task store under add and, for the tasks that exist, update (an agent
\* takes the task), complete and delete.
NextDependencies ==
    \/ \E depends_on \in DependsOnInputs : Add(depends_on)
    \/ \E t \in DOMAIN tasks : Update(t, "in_progress", NULL)
    \/ \E t \in DOMAIN tasks : Complete(t)
    \/ \E t \in DOMAIN tasks : Delete(t)

SpecDependencies == Init /\ [][NextDependencies]_vars

\* The task store with two callers of complete(): the tasks are created
\* while no call is in progress, and the callers complete tasks that are not
\* completed yet.
NextConcurrent ==
    \/ \E depends_on \in DependsOnInputs :
          (\A a \in Callers : txn[a].pc = "idle") /\ Add(depends_on)
    \/ \E a \in Callers, t \in DOMAIN tasks :
          tasks[t].status # "completed" /\ CompleteCall(a, t)
    \/ \E a \in Callers : CompleteMark(a)
    \/ \E a \in Callers : CompleteSelect(a)
    \/ \E a \in Callers : CompleteUnblock(a)
    \/ \E a \in Callers : CompleteNotify(a)
    \/ \E a \in Callers : CompleteCommit(a)

SpecConcurrent == Init /\ [][NextConcurrent]_vars

\* The task store with agents that poll their notifications.
NextWatch ==
    \/ \E depends_on \in DependsOnInputs : Add(depends_on)
    \/ \E t \in DOMAIN tasks, a \in Agents : Update(t, NULL, a)
    \/ \E t \in DOMAIN tasks : Complete(t)
    \/ \E a \in Callers, limit \in LimitInputs : Watch(a, limit)

SpecWatch == Init /\ [][NextWatch]_vars

\* The task store under add and complete alone.
NextLifecycle ==
    \/ \E depends_on \in DependsOnInputs : Add(depends_on)
    \/ \E t \in TaskIds : Complete(t)

SpecLifecycle == Init /\ [][NextLifecycle]_vars

\* ------------------------------------------------- graph-theoretic notions
\* Nodes reachable from the set S by zero or more dependency edges.
RECURSIVE Closure(_, _)
Closure(g, S) ==
    LET T == S \cup UNION {g.edges[x] : x \in S}
    IN IF T = S THEN S ELSE Closure(g, T)

\* Nodes reachable from n by one or more dependency edges.
Descendants(g, n) == Closure(g, g.edges[n])

HasCycle(g) == \E n \in Ids : n \in Descendants(g, n)

\* s lists every node of g exactly once, each dependency before its dependents.
IsTopologicalOrder(g, s) ==
    /\ Len(s) = Cardinality(g.nodes)
    /\ Range(s) = g.nodes
    /\ \A i, j \in 1..Len(s) : s[j] \in g.edges[s[i]] => j < i

\* p is a loop of g that can be walked: each element depends directly on the
\* next one, the last one on the first (or is the first), and every element
\* lies on a cycle through all of them.
IsTraversableLoop(g, p) ==
    /\ Len(p) >= 1
    /\ \A i \in 1..(Len(p) - 1) : p[i + 1] \in g.edges[p[i]]
    /\ p[Len(p)] = p[1] \/ p[1] \in g.edges[p[Len(p)]]
    /\ \A i \in 1..Len(p) : p[i] \in Descendants(g, p[i])

\* Nodes from which n is reachable by one or more dependency edges.
Ancestors(g, n) == {m \in Ids : n \in Descendants(g, m)}

\* The sum of the weights of the nodes of p.
RECURSIVE PathWeight(_, _)
PathWeight(g, p) ==
    IF p = <<>> THEN 0 ELSE weight_of(g, Head(p)) + PathWeight(g, Tail(p))

\* The dependency chains of g: non-empty sequences of nodes in which each node
\* is a direct dependency of the next one.
Chains(g) ==
    {p \in UNION {[1..k -> g.nodes] : k \in 1..Cardinality(g.nodes)} :
        \A i \in 1..(Len(p) - 1) : p[i] \in g.edges[p[i + 1]]}

\* ------------------------------------------------------------------ claims
\* C1: starting from the empty graph, when add_edge is called only for an edge
\* that validate_new_edge has just accepted on the current graph, detect_cycle()
\* returns None in every reachable state, whatever the iteration order.
C1_ValidatedGraphAcyclic ==
    /\ detect_cycle(G) = {NoCycle}
    /\ ret.op = "detect_cycle" => ret.isNone

C1_Witness ==
    /\ ret.op = "detect_cycle" /\ ret.isNone
    /\ EdgeCount(G) >= 3

\* C2: validate_new_edge leaves nodes, both adjacency maps and weights as
\* they were before the call, whether or not the edge was accepted; and a
\* second call for the same edge right after the first returns the same verdict.
C2_ValidateSideEffectFree ==
    [][ret'.op = "validate_new_edge" =>
         /\ nodes' = nodes
         /\ edges' = edges
         /\ reverse_edges' = reverse_edges
         /\ weights' = weights
         /\ (ret.op = "validate_new_edge" /\ ret.from = ret'.from
                                          /\ ret.to = ret'.to)
            => ret'.valid = ret.valid]_vars

\* Number of 'unblocked' notifications created for task y.
UnblockedCount(y) ==
    Cardinality({i \in 1..Len(notifications) :
                   /\ notifications[i].task_id = y
                   /\ notifications[i].type = "unblocked"})

AllDepsCompleted(y) ==
    \A d \in DepsOf(dependencies, y) :
        d \in DOMAIN tasks /\ tasks[d].status = "completed"

\* C3: no step moves a task from blocked to pending while one of its direct
\* dependencies is not completed.
C3_UnblockOnlyWhenDepsCompleted ==
    [][\A y \in TaskIds :
          (/\ y \in DOMAIN tasks /\ y \in DOMAIN tasks'
           /\ tasks[y].status = "blocked"
           /\ tasks'[y].status = "pending")
          => \A d \in DepsOf(dependencies', y) :
                d \in DOMAIN tasks' /\ tasks'[d].status = "completed"]_vars

\* C4: a task created blocked on two or more dependencies, none of them
\* completed yet, stays blocked and has no 'unblocked' notification while one
\* of them is not completed, and is pending with exactly one 'unblocked'
\* notification once complete() has been called on all of them, in whatever
\* order (complete() is called on the dependencies, not on the task itself).
C4_UnblockOnLastDependency ==
    \A y \in fresh :
        (/\ y \in DOMAIN tasks
         /\ Cardinality(DepsOf(dependencies, y)) >= 2
         /\ tasks[y].status # "completed")
        => IF AllDepsCompleted(y)
           THEN tasks[y].status = "pending" /\ UnblockedCount(y) = 1
           ELSE tasks[y].status = "blocked" /\ UnblockedCount(y) = 0

C4_Witness ==
    /\ tm_ret.op = "complete"
    /\ \E y \in fresh :
          /\ Cardinality(DepsOf(dependencies, y)) >= 2
          /\ AllDepsCompleted(y)
          /\ tasks[y].status = "pending"
          /\ UnblockedCount(y) = 1

\* C5: once an operation has returned, no task with a non-empty dependency set
\* is still blocked while all of its dependencies are completed.
C5_AutomaticUnblock ==
    \A y \in DOMAIN tasks :
        (DepsOf(dependencies, y) # {} /\ AllDepsCompleted(y))
        => tasks[y].status # "blocked"

C7_SortFailsIffCycle ==
    /\ \A r \in topological_sort(G) : r.isNone <=> HasCycle(G)
    /\ \A c \in detect_cycle(G) : c.found <=> HasCycle(G)
    /\ \A r \in topological_sort(G), c \in detect_cycle(G) : r.isNone <=> c.found
    /\ ret.op = "topological_sort" => (ret.isNone <=> HasCycle(G))

C7_Witness ==
    /\ ret.op = "topological_sort" /\ ret.isNone
    /\ \E n \in nodes : n \in edges[n] /\ Descendants(G, n) = {n}
    /\ \E m \in nodes : m \notin Descendants(G, m) /\ edges[m] # {}

\* C8: every path detect_cycle() can return is a loop of the graph that can be
\* walked, and every node it lists lies on that cycle.
C8_CyclePathIsLoop ==
    \A c \in detect_cycle(G) : c.found => IsTraversableLoop(G, c.path)

\* C9: on an acyclic graph and for from # to, validate_new_edge(from, to)
\* rejects with the circular-dependency message exactly when from is reachable
\* from to (from is in get_all_dependencies(to)), the cycle it names then
\* holds from and to, and otherwise it returns (True, None).
C9_RejectsIffReachable ==
    ~HasCycle(G) =>
        \A f, t \in Ids : f # t =>
            /\ \A deps \in get_all_dependencies(G, t) :
                  (f \in deps) <=> (f \in Descendants(G, t))
            /\ \A o \in validate_new_edge(G, f, t) :
                  IF f \in Descendants(G, t)
                  THEN /\ ~o.valid
                       /\ o.msg = CircularDependency
                       /\ {f, t} \subseteq Range(o.path)
                  ELSE o.valid /\ o.msg = NoMessage

C9_Witness ==
    /\ ret.op = "validate_new_edge" /\ ~ret.valid
    /\ ret.msg = CircularDependency
    /\ Len(ret.path) = 3
    /\ ~HasCycle(G)

\* C10: validate_new_edge(n, n) is rejected with the self-dependency reason,
\* never with the circular-dependency message, and changes nothing of the
\* graph, whether or not n is a node.
C10_SelfDependencyRejected ==
    /\ \A n \in Ids : \A o \in validate_new_edge(G, n, n) :
          /\ ~o.valid
          /\ o.msg = SelfDependency
          /\ o.g = G
    /\ (ret.op = "validate_new_edge" /\ ret.from = ret.to) =>
          (~ret.valid /\ ret.msg = SelfDependency)

C10_Witness ==
    /\ ret.op = "validate_new_edge" /\ ret.from = ret.to
    /\ ret.msg = SelfDependency
    /\ ret.from \notin nodes
    /\ nodes # {}

C12_NonEmptyCriticalPath ==
    (ret.op = "find_critical_path" /\ nodes # {} /\ ~HasCycle(G)) =>
        /\ ret.path # <<>>
        /\ \A n \in Ids : (nodes = {n} /\ EdgeCount(G) = 0) =>
              (ret.path = <<n>> /\ ret.total = weight_of(G, n))

\* C13: on a graph that contains a cycle, a self-loop included,
\* find_critical_path() returns the empty path and zero, and the graph is the
\* same after the call as before it.
C13_CycleGivesEmptyPath ==
    [][(HasCycle(G) /\ ret'.op = "find_critical_path") =>
          (ret'.path = <<>> /\ ret'.total = 0 /\ G' = G)]_vars

\* The query has answered on a graph whose only cycle is a self-loop.
C13_Witness ==
    /\ ret.op = "find_critical_path"
    /\ \E n \in Ids : n \in edges[n]
    /\ \A n, m \in Ids : (n # m /\ m \in Descendants(G, n)) => n \notin Descendants(G, m)
    /\ ret.path = <<>>

\* C14: a blocked task that named a dependency whose task has been deleted
\* stays blocked: no complete() call moves it to pending.
C14_UnresolvableBlocksForever ==
    [][tm_ret'.op = "complete" =>
          \A y \in orphaned \cap DOMAIN tasks :
              tasks[y].status = "blocked" => tasks'[y].status = "blocked"]_vars

\* The dependency relation of the task store as a graph over the task ids.
DependsOnGraph == [edges |-> [t \in TaskIds |-> DepsOf(dependencies, t)]]

\* The tasks t depends on, directly or through other tasks.
AllDependsOn(t) == Closure(DependsOnGraph, DependsOnGraph.edges[t])

\* C15: after any sequence of add, update, complete and delete the stored
\* dependency relation has no cycle and no task that depends on itself.
C15_DependenciesAcyclic ==
    /\ \A d \in dependencies : d[1] # d[2]
    /\ \A t \in TaskIds : t \notin AllDependsOn(t)

\* A task depends on another one through a third, and a task has been deleted
\* or completed since.
C15_Witness ==
    /\ \E t \in DOMAIN tasks :
          \E u \in AllDependsOn(t) : AllDependsOn(u) # {}
    /\ tm_ret.op \in {"complete", "delete", "update"}
    /\ tm_ret.ok

\* C16: two writers that each validate their own edge on the shared graph and
\* add it when it was accepted leave an acyclic graph under every interleaving
\* of their calls.
C16_CommittedGraphAcyclic ==
    \A n \in nodes : n \notin Descendants(G, n)

\* C17: add() with an empty depends_on creates the task pending; with a
\* non-empty list of ids of existing tasks it creates the task blocked and
\* with exactly one dependency row for each listed id.
C17_AddStatusAndRows ==
    [][\A depends_on \in DependsOnInputs :
          (Add(depends_on) /\ Range(depends_on) \subseteq DOMAIN tasks) =>
              /\ next_id \in DOMAIN tasks'
              /\ tasks'[next_id].status =
                     (IF depends_on = <<>> THEN "pending" ELSE "blocked")
              /\ {d \in dependencies' : d[1] = next_id} =
                     {<<next_id, dep_id>> : dep_id \in Range(depends_on)}]_vars

\* C18: get_all_dependencies(n) is exactly the set of nodes reachable from n by
\* one or more dependency edges, so with n it is closed under get_dependencies;
\* get_all_dependents(n) is exactly the set of nodes that reach n; and m is in
\* get_all_dependencies(n) exactly when n is in get_all_dependents(m).
C18_TransitiveSetsAreReachability ==
    /\ ret.op = "get_all_dependencies" =>
          /\ ret.nodeset = Descendants(G, ret.from)
          /\ \A x \in ret.nodeset \cup {ret.from} :
                get_dependencies(G, x) \subseteq ret.nodeset \cup {ret.from}
    /\ ret.op = "get_all_dependents" =>
          /\ ret.nodeset = Ancestors(G, ret.from)
          /\ \A x \in ret.nodeset \cup {ret.from} :
                get_dependents(G, x) \subseteq ret.nodeset \cup {ret.from}
    /\ \A n, m \in Ids :
          \A deps \in get_all_dependencies(G, n), dependents \in get_all_dependents(G, m) :
              (m \in deps) <=> (n \in dependents)

\* A query has returned a node that is not a direct neighbour of its argument.
C18_Witness ==
    /\ ret.op \in {"get_all_dependencies", "get_all_dependents"}
    /\ ret.nodeset \ (edges[ret.from] \cup reverse_edges[ret.from]) # {}
    /\ Cardinality(ret.nodeset) >= 2

\* C19: on every graph built with add_node and add_edge, cyclic ones included,
\* the node asked about is in neither of its own transitive sets.
C19_StartNodeExcluded ==
    ret.op \in {"get_all_dependencies", "get_all_dependents"} =>
        ret.from \notin ret.nodeset

\* C20: topological_sort() has one possible result on every graph: ties between
\* nodes that are eligible together are not broken by the iteration order of a
\* set.
C20_SortReproducible ==
    \A r1, r2 \in topological_sort(G) : r1 = r2

\* The status changes the task lifecycle allows.
LifecycleTransitions ==
    {<<"blocked", "pending">>, <<"pending", "in_progress">>,
     <<"blocked", "in_progress">>, <<"in_progress", "completed">>}

\* C21: every status change made by update() or complete() is one of blocked to
\* pending, pending or blocked to in_progress, in_progress to completed; so a
\* completed task keeps its status and no task becomes blocked after creation.
C21_LifecycleTransitionsOnly ==
    [][tm_ret'.op \in {"update", "complete"} =>
          \A t \in DOMAIN tasks \cap DOMAIN tasks' :
              tasks'[t].status # tasks[t].status =>
                  <<tasks[t].status, tasks'[t].status>> \in LifecycleTransitions]_vars

\* C22: add() with a depends_on list that names an id without a task row fails
\* and leaves the tables tasks, dependencies and notifications as they were:
\* an add() step either does that, or is the step of no call whose list names
\* an id without a task row.
C22_MissingDependencyRejected ==
    [][tm_ret'.op = "add" =>
          \/ /\ ~tm_ret'.ok
             /\ tasks' = tasks
             /\ dependencies' = dependencies
             /\ notifications' = notifications
          \/ \A depends_on \in DependsOnInputs :
                Add(depends_on) => Range(depends_on) \subseteq DOMAIN tasks]_vars

\* add() has failed while no task exists although tasks were created before:
\* the list named a deleted or unknown id.
C22_Witness ==
    /\ tm_ret.op = "add"
    /\ ~tm_ret.ok
    /\ DOMAIN tasks = {}
    /\ next_id > 1

\* to is a dependency of from exactly when from is a dependent of to.
\* C23: after any sequence of add_node, add_edge, remove_edge and
\* validate_new_edge the two adjacency maps agree, both ends of every edge are
\* nodes and every node has a weight; a step of add_edge gives the nodes it
\* creates the weight 1.0 and leaves the weight of every existing node alone
\* (a step either does so, or is the step of no add_edge call).
C23_StoreWellFormed ==
    [][/\ \A f, t \in Ids : (t \in edges'[f]) <=> (f \in reverse_edges'[t])
       /\ \A f \in Ids : edges'[f] # {} => (f \in nodes' /\ edges'[f] \subseteq nodes')
       /\ DOMAIN weights' = nodes'
       /\ \/ /\ \A n \in nodes : weights'[n] = weights[n]
             /\ \A n \in nodes' \ nodes : weights'[n] = DefaultWeight
          \/ \A f, t \in Ids : G' # add_edge(G, f, t)]_vars

\* An edge ends in a node that was given the weight 2, next to a node created
\* by add_edge, after an edge was validated.
C23_Witness ==
    /\ ret.op = "validate_new_edge"
    /\ \E e \in EdgeSet(G) : weights[e[1]] = 2 /\ weights[e[2]] = DefaultWeight
    /\ EdgeCount(G) >= 2

QueryNames ==
    {"topological_sort", "detect_cycle", "find_self_loops", "find_roots",
     "find_leaves", "get_all_dependencies", "get_all_dependents",
     "find_critical_path", "identify_blocking_tasks"}

\* C24: a call of one of the read-only queries (topological_sort, detect_cycle,
\* find_self_loops, find_roots, find_leaves, get_all_dependencies,
\* get_all_dependents, find_critical_path, identify_blocking_tasks) leaves the
\* node set, the edge relation and the weights as they were, on every graph,
\* cyclic ones included, and for queried ids that are not nodes.
C24_QueriesReadOnly ==
    [][ret'.op \in QueryNames =>
          /\ nodes' = nodes
          /\ edges' = edges
          /\ reverse_edges' = reverse_edges
          /\ weights' = weights]_vars

C24_Witness ==
    /\ ret.op \in {"get_all_dependencies", "get_all_dependents"}
    /\ ret.from \notin nodes
    /\ HasCycle(G)
    /\ \E n \in nodes : weights[n] = 2

WalkNames == {"get_all_dependencies", "get_all_dependents"}

NoRepeats(s) == \A i, j \in 1..Len(s) : i # j => s[i] # s[j]

C26_CriticalPathIsDependencyChain ==
    (ret.op = "find_critical_path" /\ ~HasCycle(G)) =>
        /\ Range(ret.path) \subseteq nodes
        /\ \A i \in 1..(Len(ret.path) - 1) :
              ret.path[i] \in get_dependencies(G, ret.path[i + 1])
        /\ NoRepeats(ret.path)
        /\ ((\A n \in nodes : weight_of(G, n) > 0) /\ ret.path # <<>>) =>
              /\ get_dependencies(G, ret.path[1]) = {}
              /\ get_dependents(G, ret.path[Len(ret.path)]) = {}

\* A three-node path was returned on a graph with positive weights and a
\* shortcut edge from the last node to the first.
C26_Witness ==
    /\ ret.op = "find_critical_path"
    /\ ~HasCycle(G)
    /\ Len(ret.path) = 3
    /\ ret.path[1] \in get_dependencies(G, ret.path[3])
    /\ \A n \in nodes : weight_of(G, n) > 0

\* The score of node n, in halves, from the graph alone: the transitive
\* dependents are the nodes that reach n over one or more dependency edges.
ScoreOf(g, n, path) ==
    4 * Cardinality(get_dependents(g, n))
    + 3 * Cardinality(Ancestors(g, n))
    + 2 * weight_of(g, n)
    + 6 * (IF n \in Range(path) THEN 2 ELSE 1)

\* C29: identify_blocking_tasks() returns a score for every node, equal to
\* 2.0 x direct dependents + 1.5 x transitive dependents + 1.0 x weight
\* + 3.0 x (2 on the path returned by find_critical_path, else 1); so a node
\* with strictly more direct and transitive dependents than another, and
\* weight and critical-path membership not lower, scores strictly higher.
C29_BlockingScore ==
    ret.op = "identify_blocking_tasks" =>
        /\ DOMAIN ret.scores = nodes
        /\ \E cp \in find_critical_path(G) :
              \A n \in nodes : ret.scores[n] = ScoreOf(G, n, cp.path)
        /\ \E cp \in find_critical_path(G) :
              \A n, m \in nodes :
                  (/\ Cardinality(get_dependents(G, n)) > Cardinality(get_dependents(G, m))
                   /\ Cardinality(Ancestors(G, n)) > Cardinality(Ancestors(G, m))
                   /\ weight_of(G, n) >= weight_of(G, m)
                   /\ (m \in Range(cp.path) => n \in Range(cp.path))
                   /\ \A k \in nodes : ret.scores[k] = ScoreOf(G, k, cp.path))
                  => ret.scores[n] > ret.scores[m]

\* Scores were returned on an acyclic graph where one node has two direct
\* dependents, lies on the critical path and outscores an off-path node.
C29_Witness ==
    /\ ret.op = "identify_blocking_tasks"
    /\ ~HasCycle(G)
    /\ \E n, m \in nodes :
          /\ Cardinality(get_dependents(G, n)) = 2
          /\ weight_of(G, n) = 2
          /\ ret.scores[n] = 8 + 6 + 4 + 12
          /\ ret.scores[m] = 0 + 0 + 2 + 6

\* C27: complete(x) sets x to completed and changes no other task, except
\* that a blocked task which depends directly on x and has all its
\* dependencies completed becomes pending; a pending, in_progress or completed
\* task is never modified by the completion of another task.
C27_CompleteTouchesOnlyItsDependents ==
    [][\A x \in TaskIds :
          (tm_ret'.op = "complete" /\ tm_ret'.task_id = x) =>
              /\ DOMAIN tasks' = DOMAIN tasks
              /\ x \in DOMAIN tasks =>
                    tasks'[x] = [tasks[x] EXCEPT !.status = "completed"]
              /\ \A y \in DOMAIN tasks \ {x} :
                    tasks'[y] # tasks[y] =>
                        /\ tasks[y].status = "blocked"
                        /\ <<y, x>> \in dependencies
                        /\ \A d \in DepsOf(dependencies, y) :
                              d \in DOMAIN tasks' /\ tasks'[d].status = "completed"
                        /\ tasks'[y] = [tasks[y] EXCEPT !.status = "pending"]]_vars

\* complete() has moved a task with two dependencies to pending and written
\* its notification.
C27_Witness ==
    /\ tm_ret.op = "complete"
    /\ tm_ret.task_id \in DOMAIN tasks
    /\ \E y \in DOMAIN tasks :
          /\ <<y, tm_ret.task_id>> \in dependencies
          /\ Cardinality(DepsOf(dependencies, y)) = 2
          /\ tasks[y].status = "pending"
          /\ \E i \in 1..Len(notifications) : notifications[i].task_id = y

Quiescent == \A a \in Callers : txn[a].pc = "idle"

\* C28: when two agents call complete() concurrently on the last two
\* uncompleted dependencies of a blocked task, each call being one SQLite
\* write transaction, then in every interleaving the task ends pending with
\* exactly one 'unblocked' notification.
C28_ConcurrentCompletionsUnblockOnce ==
    \A y \in fresh :
        (/\ y \in DOMAIN tasks
         /\ Cardinality(DepsOf(dependencies, y)) >= 2
         /\ tasks[y].status # "completed")
        => /\ UnblockedCount(y) <= 1
           /\ (Quiescent /\ AllDepsCompleted(y)) =>
                 (tasks[y].status = "pending" /\ UnblockedCount(y) = 1)

\* The first call has returned; the second one, started while the first was
\* in progress, has completed the other dependency in its open transaction,
\* moved the task to pending there and inserted its one notification.
C28_Witness ==
    /\ txn["agent1"].pc = "idle"
    /\ txn["agent2"].pc = "notified"
    /\ txn["agent2"].overlap
    /\ tm_ret.op = "complete"
    /\ \E y \in fresh :
          /\ DepsOf(dependencies, y) = {tm_ret.task_id, txn["agent2"].task_id}
          /\ tm_ret.task_id # txn["agent2"].task_id
          /\ tasks[y].status = "blocked"
          /\ view(tasks, txn["agent2"].writes)[y].status = "pending"
          /\ Len(txn["agent2"].rows) = 1
          /\ txn["agent2"].rows[1].task_id = y
          /\ UnblockedCount(y) = 0

\* C30: watch() never marks a notification read without returning it: every
\* notification whose read flag a watch() call sets is among the rows that
\* call returns, whatever the limit, and a returned notification was unread
\* before the call and is read after it, so that no later call returns it again.
C30_WatchReturnsWhatItMarks ==
    [][tm_ret'.op = "watch" =>
          /\ \A i \in 1..Len(notifications) :
                (~notifications[i].read /\ notifications'[i].read) =>
                    i \in Range(tm_ret'.rows)
          /\ \A i \in Range(tm_ret'.rows) :
                ~notifications[i].read /\ notifications'[i].read]_vars
====
